---- MODULE Spec2Model ----
(***************************************************************************)
(* A model of the subtitle pipeline of ai-subtitle-generator:              *)
(*   - Translator.translate_segments / translate_with_ollama               *)
(*     (src/translator.py), stepped one loop iteration at a time under     *)
(*     SpecTranslate;                                                      *)
(*   - the MainWindow orchestration with its three QThread workers         *)
(*     (src/ui/main_window.py), VideoProcessor's temporary audio file      *)
(*     (src/video_processor.py), under Spec.                               *)
(*                                                                         *)
(* Texts are sequences of characters over a four-letter alphabet that      *)
(* keeps the classes the code distinguishes: "a" a letter the filter       *)
(* keeps, " " whitespace, "!" a punctuation mark of allowed_punct, "#" a   *)
(* character the filter discards.                                          *)
(*                                                                         *)
(* Signals cross threads, so each emit is queued and its slot runs later   *)
(* in the GUI thread; a slot runs to completion (the nested event loop of  *)
(* a message box is not modelled). A worker leaves the table when the slot *)
(* of its result or error signal has run. runs, segmentsRun, failedRun and *)
(* readyRun are history variables: the code keeps no run identifier.       *)
(* SpecWorker runs one worker of any kind by itself.                       *)
(***************************************************************************)
EXTENDS Integers, Sequences, FiniteSets, TLC

\* ------------------------------------------------------------- bounds
\* Longest store the translator is given.
MaxSegs == 2
\* Longest store the recognition engine produces under Spec.
MaxTranscript == 1
\* Runs start_transcription may start in one behaviour.
MaxRuns == 2
\* Worker threads alive (created, terminal signal not yet handled) at once.
MaxWorkers == 2

\* ------------------------------------------------------------- texts
Letter == "a"
Space == " "
Punct == "!"
Other == "#"

EmptyText == << >>

\* str.strip(): leading and trailing whitespace removed.
RECURSIVE LStrip(_)
LStrip(s) ==
    IF s = << >> THEN << >>
    ELSE IF Head(s) = Space THEN LStrip(Tail(s)) ELSE s

RECURSIVE RStrip(_)
RStrip(s) ==
    IF s = << >> THEN << >>
    ELSE IF s[Len(s)] = Space THEN RStrip(SubSeq(s, 1, Len(s) - 1)) ELSE s

Strip(s) == RStrip(LStrip(s))

\* Python truthiness of "not text or not text.strip()".
IsBlank(s) == s = << >> \/ Strip(s) = << >>

\* The characters the regular expression of translate_with_ollama keeps.
Allowed(c) == c = Letter \/ c = Punct

\* ''.join(re.findall('[allowed]+', s)): s with every other character dropped.
RECURSIVE KeepAllowed(_)
KeepAllowed(s) ==
    IF s = << >> THEN << >>
    ELSE IF Allowed(Head(s)) THEN <<Head(s)>> \o KeepAllowed(Tail(s))
    ELSE KeepAllowed(Tail(s))

\* The post-processing of an engine response.
Sanitize(stdout) ==
    LET stripped == Strip(stdout)
        filtered == KeepAllowed(stripped)
        cut == IF filtered # << >> /\ filtered[Len(filtered)] = Punct
               THEN SubSeq(filtered, 1, Len(filtered) - 1)
               ELSE filtered
    IN  Strip(cut)

\* int(k / total * 100) for the small totals of the model (exact there).
Percent(k, total) == (k * 100) \div total

\* ------------------------------------------------------------- translator
\* What the engine process ("ollama run") answers: a non-zero exit, or stdout.
Stdouts ==
    { << >>, <<Space>>, <<Letter>>, <<Other, Letter, Punct>>, <<Punct>>,
      <<Other>> }

EngineReplies ==
    { [ok |-> FALSE, stdout |-> EmptyText] } \cup
    { [ok |-> TRUE, stdout |-> s] : s \in Stdouts }

\* translate_with_ollama: raised tells whether it raised, invoked whether
\* subprocess.run was reached, value the returned translation.
TranslateWithOllama(model_name, text, reply) ==
    IF IsBlank(text)
    THEN [raised |-> TRUE, invoked |-> FALSE, value |-> EmptyText]
    ELSE IF model_name = ""
    THEN [raised |-> TRUE, invoked |-> FALSE, value |-> EmptyText]
    ELSE IF ~reply.ok
    THEN [raised |-> TRUE, invoked |-> TRUE, value |-> EmptyText]
    ELSE IF IsBlank(reply.stdout)
    THEN [raised |-> TRUE, invoked |-> TRUE, value |-> EmptyText]
    ELSE [raised |-> FALSE, invoked |-> TRUE, value |-> Sanitize(reply.stdout)]

\* "if self.use_local_model and self.model_name"
MutEngineConfiguredIgnoresName(use_local_model, model_name) ==
    use_local_model

EngineConfigured(use_local_model, model_name) ==
    use_local_model /\ model_name # ""

\* "\n---\n".join(segment["text"] for segment in segments)
ContextSeparator == <<"\n", "-", "-", "-", "\n">>

RECURSIVE JoinTexts(_)
JoinTexts(segs) ==
    IF segs = << >> THEN << >>
    ELSE IF Len(segs) = 1 THEN segs[1].text
    ELSE segs[1].text \o ContextSeparator \o JoinTexts(Tail(segs))

\* context_prompt, line 53: a fixed introduction (one token here) followed
\* by the texts of all segments.
ContextPrompt(segs) == <<"context:">> \o JoinTexts(segs)

\* A variant of the iteration that stamps every entry with the timing of
\* a first segment.
MutTranslateIterationLosesTiming(use_local_model, model_name, seg, reply) ==
    IF EngineConfigured(use_local_model, model_name)
    THEN LET r == TranslateWithOllama(model_name, seg.text, reply)
         IN  [raised |-> r.raised, invoked |-> r.invoked,
              entry |-> [start |-> 0, end |-> 1,
                         original |-> seg.text, translated |-> r.value]]
    ELSE [raised |-> FALSE, invoked |-> FALSE,
          entry |-> [start |-> 0, end |-> 1,
                     original |-> seg.text, translated |-> seg.text]]

\* One iteration of the loop of translate_segments over segment seg.
TranslateIteration(use_local_model, model_name, seg, reply) ==
    IF EngineConfigured(use_local_model, model_name)
    THEN LET r == TranslateWithOllama(model_name, seg.text, reply)
         IN  [raised |-> r.raised, invoked |-> r.invoked,
              entry |-> [start |-> seg.start, end |-> seg.end,
                         original |-> seg.text, translated |-> r.value]]
    ELSE [raised |-> FALSE, invoked |-> FALSE,
          entry |-> [start |-> seg.start, end |-> seg.end,
                     original |-> seg.text, translated |-> seg.text]]

\* "if not segments: raise ValueError"
MutEntryRaisesNever(segs) == FALSE

EntryRaises(segs) == segs = << >>

\* translate_segments as a whole, the engine answering replies[i] to the
\* request for segment i: the outcome, the store returned, the texts the
\* engine was invoked with (in order) and the values given to the callback.
RECURSIVE TranslateFrom(_, _, _, _, _, _)
TranslateFrom(segs, use_local_model, model_name, replies, i, acc) ==
    IF i > Len(segs)
    THEN [acc EXCEPT !.raised = FALSE]
    ELSE LET r == TranslateIteration(use_local_model, model_name,
                                     segs[i], replies[i])
             inv == IF r.invoked
                    THEN Append(acc.invocations, segs[i].text)
                    ELSE acc.invocations
         IN  IF r.raised
             THEN [raised |-> TRUE, result |-> << >>, invocations |-> inv,
                   progress |-> acc.progress]
             ELSE TranslateFrom(segs, use_local_model, model_name, replies,
                                i + 1,
                                [raised |-> FALSE,
                                 result |-> Append(acc.result, r.entry),
                                 invocations |-> inv,
                                 progress |-> Append(acc.progress,
                                                     Percent(i, Len(segs)))])

TranslateSegments(segs, use_local_model, model_name, replies) ==
    IF EntryRaises(segs)
    THEN [raised |-> TRUE, result |-> << >>, invocations |-> << >>,
          progress |-> << >>]
    ELSE TranslateFrom(segs, use_local_model, model_name, replies, 1,
                       [raised |-> FALSE, result |-> << >>,
                        invocations |-> << >>, progress |-> << >>])

\* ------------------------------------------------------------- state
VARIABLES
    tcall,                    \* one call of TranslationThread.run, stepped
    call,                     \* one call of a library function, stepped
    video_path,               \* MainWindow.video_path
    segments,                 \* MainWindow.segments
    start_button,             \* start_button.isEnabled()
    generate_button,          \* generate_button.isEnabled()
    progress_bar,             \* progress_bar.value()
    translation_combo,        \* translation_combo: enabled, currentText
    ollama_model_combo,       \* ollama_model_combo: enabled, currentText
    use_translation_checkbox, \* use_translation_checkbox: enabled, checked
    workers,                  \* the QThread workers alive
    events,                   \* queued signals waiting in the GUI event loop
    tempFiles,                \* temporary audio files present on disk
    runs,                     \* history: runs started so far
    segmentsRun,              \* history: the run MainWindow.segments came from
    failedRun,                \* history: latest run whose error was handled
    readyRun                  \* history: latest run whose result made it Ready

uivars == <<video_path, segments, start_button, generate_button, progress_bar,
            translation_combo, ollama_model_combo, use_translation_checkbox,
            workers, events, tempFiles, runs, segmentsRun, failedRun,
            readyRun>>

vars == <<tcall, call, uivars>>

\* ------------------------------------------------------------- inputs
InputTexts == { EmptyText, <<Space>>, <<Letter>>, <<Letter, Letter>> }

\* A segment as transcription produces it; timings follow the position.
Seg(i, t) == [start |-> i - 1, end |-> i, text |-> t]

StoresOfLen(n) == { [i \in 1..n |-> Seg(i, f[i])] : f \in [1..n -> InputTexts] }

InputStores == UNION { StoresOfLen(n) : n \in 0..MaxSegs }

ModelNames == { "", "gemma" }

\* ------------------------------------------------------------- TranslationThread.run, stepped
TCallInit ==
    \E s \in InputStores, u \in BOOLEAN, m \in ModelNames :
        tcall = [segments |-> s, use_local_model |-> u, model_name |-> m,
                 pc |-> "entry", i |-> 0, translated_segments |-> << >>,
                 invocations |-> << >>, replies |-> << >>,
                 progress |-> << >>, signal |-> "none", delivered |-> << >>,
                 context_prompt |-> << >>, contexts |-> << >>]

\* translate_segments, lines 40-54: the empty check and the context phase.
T_Entry ==
    /\ tcall.pc = "entry"
    /\ tcall' = IF EntryRaises(tcall.segments)
                THEN [tcall EXCEPT !.pc = "raised"]
                ELSE [tcall EXCEPT
                        !.pc = "loop",
                        !.context_prompt =
                            IF EngineConfigured(tcall.use_local_model,
                                                tcall.model_name)
                            THEN ContextPrompt(tcall.segments)
                            ELSE << >>]

\* One iteration of the loop, lines 57-86. invocations and replies record
\* the requests that reached the engine and what it answered.
MutT_IterateSkipsFailedSegment ==
    /\ tcall.pc = "loop"
    /\ tcall.i < Len(tcall.segments)
    /\ \E reply \in EngineReplies :
        LET seg == tcall.segments[tcall.i + 1]
            r == TranslateIteration(tcall.use_local_model, tcall.model_name,
                                    seg, reply)
            inv == IF r.invoked THEN Append(tcall.invocations, seg.text)
                   ELSE tcall.invocations
            rep == IF r.invoked THEN Append(tcall.replies, reply)
                   ELSE tcall.replies
            ctx == IF r.invoked
                   THEN Append(tcall.contexts, tcall.context_prompt)
                   ELSE tcall.contexts
        IN  tcall' =
              IF r.raised
              THEN [tcall EXCEPT !.i = tcall.i + 1, !.invocations = inv,
                                 !.replies = rep, !.contexts = ctx]
              ELSE [tcall EXCEPT
                      !.i = tcall.i + 1,
                      !.invocations = inv,
                      !.replies = rep,
                      !.contexts = ctx,
                      !.translated_segments = Append(@, r.entry),
                      !.progress = Append(@, Percent(tcall.i + 1,
                                                     Len(tcall.segments)))]

T_Iterate ==
    /\ tcall.pc = "loop"
    /\ tcall.i < Len(tcall.segments)
    /\ \E reply \in EngineReplies :
        LET seg == tcall.segments[tcall.i + 1]
            r == TranslateIteration(tcall.use_local_model, tcall.model_name,
                                    seg, reply)
            inv == IF r.invoked THEN Append(tcall.invocations, seg.text)
                   ELSE tcall.invocations
            rep == IF r.invoked THEN Append(tcall.replies, reply)
                   ELSE tcall.replies
            ctx == IF r.invoked
                   THEN Append(tcall.contexts, tcall.context_prompt)
                   ELSE tcall.contexts
        IN  tcall' =
              IF r.raised
              THEN [tcall EXCEPT !.pc = "raised", !.invocations = inv,
                                 !.replies = rep, !.contexts = ctx]
              ELSE [tcall EXCEPT
                      !.i = tcall.i + 1,
                      !.invocations = inv,
                      !.replies = rep,
                      !.contexts = ctx,
                      !.translated_segments = Append(@, r.entry),
                      !.progress = Append(@, Percent(tcall.i + 1,
                                                     Len(tcall.segments)))]

\* "return translated_segments", line 89.
T_Return ==
    /\ tcall.pc = "loop"
    /\ tcall.i = Len(tcall.segments)
    /\ tcall' = [tcall EXCEPT !.pc = "returned"]

\* TranslationThread.run, lines 100 and 102-104: the terminal signal.
T_Emit ==
    /\ tcall.pc \in {"returned", "raised"}
    /\ tcall' = IF tcall.pc = "returned"
                THEN [tcall EXCEPT !.pc = "done", !.signal = "result",
                                   !.delivered = tcall.translated_segments]
                ELSE [tcall EXCEPT !.pc = "done", !.signal = "error"]

TNext ==
    \/ T_Entry /\ UNCHANGED <<call, uivars>>
    \/ T_Iterate /\ UNCHANGED <<call, uivars>>
    \/ T_Return /\ UNCHANGED <<call, uivars>>
    \/ T_Emit /\ UNCHANGED <<call, uivars>>

\* ------------------------------------------------------------- MainWindow
NoPath == "None"

Videos == { "a.mp4" }

\* os.path.splitext(video_path)[0] + "_temp.wav"
TempPath(v) == IF v = "a.mp4" THEN "a_temp.wav" ELSE NoPath

\* The items of translation_combo.
NoTranslation == "NoTranslation"
UseOllama == "UseOllama"

\* MainWindow.segments: None, or a list.
NoneStore == [isNone |-> TRUE, items |-> << >>]
ListStore(items) == [isNone |-> FALSE, items |-> items]

\* bool(self.segments)
Truthy(st) == ~st.isNone /\ st.items # << >>

WorkerIds == 1..MaxWorkers

\* A worker thread object. translation_at_start and model_at_start are
\* history: the translation settings when start_transcription made the run.
NoWorker ==
    [kind |-> "none", run |-> 0, pc |-> "none", video_path |-> NoPath,
     use_faster_whisper |-> FALSE, audio_path |-> NoPath, segs |-> << >>,
     model_name |-> "", use_translation |-> FALSE, transcribed |-> FALSE,
     cleanup |-> "notcalled", emitted |-> << >>,
     translation_at_start |-> FALSE, model_at_start |-> ""]

Free(w) == workers[w].kind = "none"

\* The stores the recognition engine may produce (texts already stripped).
TranscriptStores ==
    { [i \in 1..n |-> Seg(i, <<Letter>>)] : n \in 0..MaxTranscript }

\* What a signal carries: progress an int, result a list (a transcription or
\* translation worker's), error a message.
Event(sig, w, value, segs) == [sig |-> sig, w |-> w, value |-> value, segs |-> segs]

ProgressEvents(w, values) ==
    [k \in 1..Len(values) |-> Event("progress", w, values[k], << >>)]

ProgressKinds(values) == [k \in 1..Len(values) |-> "progress"]

\* QProgressBar.setValue: a value outside 0..100 is ignored.
SetValue(old, value) == IF value \in 0..100 THEN value ELSE old

IdleCall ==
    [segments |-> << >>, use_local_model |-> FALSE, model_name |-> "",
     pc |-> "idle", i |-> 0, translated_segments |-> << >>,
     invocations |-> << >>, replies |-> << >>, progress |-> << >>,
     signal |-> "none", delivered |-> << >>,
     context_prompt |-> << >>, contexts |-> << >>]

\* MainWindow.__init__ with init_ui and detect_ollama_models: with models
\* installed both combos are enabled, otherwise both are disabled.
UIInit ==
    /\ video_path = NoPath
    /\ segments = NoneStore
    /\ start_button = TRUE
    /\ generate_button = FALSE
    /\ progress_bar = -1      \* a QProgressBar starts with no value set
    /\ \E found \in BOOLEAN :
        /\ translation_combo = [enabled |-> found, text |-> NoTranslation]
        /\ ollama_model_combo = [enabled |-> found,
                                 text |-> IF found THEN "gemma" ELSE ""]
    /\ use_translation_checkbox = [enabled |-> FALSE, checked |-> FALSE]
    /\ workers = [w \in WorkerIds |-> NoWorker]
    /\ events = << >>
    /\ tempFiles = {}
    /\ runs = 0
    /\ segmentsRun = 0
    /\ failedRun = 0
    /\ readyRun = 0

\* No library call is being examined.
NoCall == [fn |-> "none"]

Init == tcall = IdleCall /\ call = NoCall /\ UIInit

\* A TranslationThread constructed over any bounded store and configuration.
TInit == TCallInit /\ call = NoCall /\ UIInit

\* select_video: the dialog is cancelled or the file fails a check (nothing
\* changes), or the path is stored and the start button enabled.
select_video ==
    /\ \E v \in Videos, accepted \in BOOLEAN :
        IF accepted
        THEN video_path' = v /\ start_button' = TRUE
        ELSE UNCHANGED <<video_path, start_button>>
    /\ UNCHANGED <<tcall, call, segments, generate_button, progress_bar,
                   translation_combo, ollama_model_combo,
                   use_translation_checkbox, workers, events, tempFiles, runs,
                   segmentsRun, failedRun, readyRun>>

\* on_translation_model_changed: the user picks the other item.
on_translation_model_changed ==
    /\ translation_combo.enabled
    /\ \E text \in {NoTranslation, UseOllama} \ {translation_combo.text} :
        /\ translation_combo' = [translation_combo EXCEPT !.text = text]
        /\ IF text = NoTranslation
           THEN /\ use_translation_checkbox' = [enabled |-> FALSE, checked |-> FALSE]
                /\ ollama_model_combo' = [ollama_model_combo EXCEPT !.enabled = FALSE]
           ELSE /\ use_translation_checkbox' =
                       [use_translation_checkbox EXCEPT !.enabled = TRUE]
                /\ ollama_model_combo' = [ollama_model_combo EXCEPT !.enabled = TRUE]
    /\ UNCHANGED <<tcall, call, video_path, segments, start_button, generate_button,
                   progress_bar, workers, events, tempFiles, runs, segmentsRun,
                   failedRun, readyRun>>

\* "translation_combo.isEnabled() and ollama_model_combo.isEnabled() and
\*  translation_combo.currentText() == '使用Ollama翻译'"
TranslationRequested ==
    /\ translation_combo.enabled
    /\ ollama_model_combo.enabled
    /\ translation_combo.text = UseOllama

\* start_transcription, a click on the enabled start button.
start_transcription ==
    /\ start_button
    /\ IF video_path = NoPath
       THEN UNCHANGED <<start_button, generate_button, progress_bar, workers, runs>>
       ELSE /\ runs < MaxRuns
            /\ \E w \in WorkerIds, fw \in BOOLEAN :
                /\ Free(w)
                /\ \A x \in WorkerIds : Free(x) => w <= x
                /\ workers' = [workers EXCEPT ![w] =
                       [NoWorker EXCEPT !.kind = "transcription",
                                        !.run = runs + 1,
                                        !.pc = "extract",
                                        !.video_path = video_path,
                                        !.use_faster_whisper = fw,
                                        !.translation_at_start =
                                            TranslationRequested,
                                        !.model_at_start =
                                            ollama_model_combo.text]]
            /\ start_button' = FALSE
            /\ generate_button' = FALSE
            /\ progress_bar' = 0
            /\ runs' = runs + 1
    /\ UNCHANGED <<tcall, call, video_path, segments, translation_combo,
                   ollama_model_combo, use_translation_checkbox, events,
                   tempFiles, segmentsRun, failedRun, readyRun>>

\* generate_subtitle, a click on the enabled generate button.
generate_subtitle ==
    /\ generate_button
    /\ IF ~Truthy(segments)
       THEN UNCHANGED <<generate_button, progress_bar, workers>>
       ELSE \E chosen \in BOOLEAN :
            IF ~chosen
            THEN UNCHANGED <<generate_button, progress_bar, workers>>
            ELSE /\ \E w \in WorkerIds :
                     /\ Free(w)
                     /\ \A x \in WorkerIds : Free(x) => w <= x
                     /\ workers' = [workers EXCEPT ![w] =
                            [NoWorker EXCEPT
                               !.kind = "subtitle",
                               !.run = segmentsRun,
                               !.pc = "write",
                               !.segs = segments.items,
                               !.use_translation = use_translation_checkbox.checked]]
                 /\ progress_bar' = 0
                 /\ generate_button' = FALSE
    /\ UNCHANGED <<tcall, call, video_path, segments, start_button, translation_combo,
                   ollama_model_combo, use_translation_checkbox, events,
                   tempFiles, runs, segmentsRun, failedRun, readyRun>>

\* ------------------------------------------------------------- workers
\* A worker emits signals: each is queued for the GUI thread, in order.
SignalEvents(w, kinds, segs) ==
    [k \in 1..Len(kinds) |-> Event(kinds[k], w, 0,
                                   IF kinds[k] = "result" THEN segs ELSE << >>)]

\* extract_audio: the path returned, or the exception raised.
ExtractOutcomes == { "ok", "FileNotFoundError", "RuntimeError", "CalledProcessError" }

\* TranscriptionThread.run, line 44 and the handlers of lines 57-72.
Tr_Extract(w) ==
    /\ workers[w].kind = "transcription"
    /\ workers[w].pc = "extract"
    /\ \E outcome \in ExtractOutcomes :
        IF outcome = "ok"
        THEN /\ tempFiles' = tempFiles \cup {TempPath(workers[w].video_path)}
             /\ workers' = [workers EXCEPT
                              ![w].audio_path = TempPath(workers[w].video_path),
                              ![w].pc = "transcribe"]
             /\ UNCHANGED events
        ELSE /\ workers' = [workers EXCEPT ![w].pc = "done",
                                           ![w].emitted = Append(@, "error")]
             /\ events' = events \o SignalEvents(w, <<"error">>, << >>)
             /\ UNCHANGED tempFiles
    /\ UNCHANGED <<tcall, call, video_path, segments, start_button, generate_button,
                   progress_bar, translation_combo, ollama_model_combo,
                   use_translation_checkbox, runs, segmentsRun, failedRun,
                   readyRun>>

\* transcribe_with_whisper, lines 109-117: int((i + 1) / total_segments * 100).
WhisperProgress(store) ==
    [i \in 1..Len(store) |-> Percent(i, Len(store))]

\* transcribe_with_faster_whisper, lines 160-168:
\* int(segment.end / total_duration * 100).
FasterWhisperProgress(store, total_duration) ==
    [i \in 1..Len(store) |-> (store[i].end * 100) \div total_duration]

\* info.duration: the audio ends with the last segment or a second later.
Durations(store) == { Len(store), Len(store) + 1 } \ {0}

\* TranscriptionThread.run, line 48: AudioTranscriber.transcribe.
Tr_Transcribe(w) ==
    /\ workers[w].kind = "transcription"
    /\ workers[w].pc = "transcribe"
    /\ IF workers[w].audio_path \notin tempFiles
       THEN \* FileNotFoundError of lines 84-86 and 141-143
            /\ workers' = [workers EXCEPT ![w].pc = "done",
                                          ![w].emitted = Append(@, "error")]
            /\ events' = events \o SignalEvents(w, <<"error">>, << >>)
       ELSE \E engineOk \in BOOLEAN :
            IF ~engineOk
            THEN /\ workers' = [workers EXCEPT ![w].pc = "done",
                                               ![w].emitted = Append(@, "error")]
                 /\ events' = events \o SignalEvents(w, <<"error">>, << >>)
            ELSE \E store \in TranscriptStores : \E d \in Durations(store) :
                 LET values == IF workers[w].use_faster_whisper
                               THEN FasterWhisperProgress(store, d)
                               ELSE WhisperProgress(store)
                 IN  /\ workers' = [workers EXCEPT
                                      ![w].pc = "cleanup",
                                      ![w].segs = store,
                                      ![w].transcribed = TRUE,
                                      ![w].emitted = @ \o ProgressKinds(values)]
                     /\ events' = events \o ProgressEvents(w, values)
    /\ UNCHANGED <<tcall, call, video_path, segments, start_button, generate_button,
                   progress_bar, translation_combo, ollama_model_combo,
                   use_translation_checkbox, tempFiles, runs, segmentsRun,
                   failedRun, readyRun>>

\* cleanup_temp_file on an existing file: removed, or the exception re-raised.
CleanupOutcomes == { "removed", "PermissionError", "OSError" }

\* The signals of TranscriptionThread.run after transcribe returned: line 55
\* when cleanup_temp_file returned, lines 61-64 or 69-72 when it raised.
MutTranscriptionFinishResultFirst(outcome) ==
    IF outcome \in {"removed", "absent"} THEN <<"result">>
    ELSE <<"result", "error">>

TranscriptionFinish(outcome) ==
    IF outcome \in {"removed", "absent"} THEN <<"result">> ELSE <<"error">>

\* TranscriptionThread.run, lines 52-55.
Tr_Cleanup(w) ==
    /\ workers[w].kind = "transcription"
    /\ workers[w].pc = "cleanup"
    /\ \E outcome \in CleanupOutcomes \cup {"absent"} :
        /\ (outcome = "absent") <=> (workers[w].audio_path \notin tempFiles)
        /\ tempFiles' = IF outcome = "removed"
                        THEN tempFiles \ {workers[w].audio_path}
                        ELSE tempFiles
        /\ workers' = [workers EXCEPT
                         ![w].pc = "done",
                         ![w].cleanup = outcome,
                         ![w].emitted = @ \o TranscriptionFinish(outcome)]
        /\ events' = events \o SignalEvents(w, TranscriptionFinish(outcome),
                                            workers[w].segs)
    /\ UNCHANGED <<tcall, call, video_path, segments, start_button, generate_button,
                   progress_bar, translation_combo, ollama_model_combo,
                   use_translation_checkbox, runs, segmentsRun, failedRun,
                   readyRun>>

\* TranslationThread.run: translate_segments, then the terminal signal.
Tl_Run(w) ==
    /\ workers[w].kind = "translation"
    /\ workers[w].pc = "translate"
    /\ \E replies \in [1..Len(workers[w].segs) -> EngineReplies] :
        LET r == TranslateSegments(workers[w].segs, TRUE,
                                   workers[w].model_name, replies)
            last == IF r.raised THEN <<"error">> ELSE <<"result">>
        IN  /\ workers' = [workers EXCEPT
                             ![w].pc = "done",
                             ![w].emitted = @ \o ProgressKinds(r.progress) \o last]
            /\ events' = events \o ProgressEvents(w, r.progress)
                                \o SignalEvents(w, last, r.result)
    /\ UNCHANGED <<tcall, call, video_path, segments, start_button, generate_button,
                   progress_bar, translation_combo, ollama_model_combo,
                   use_translation_checkbox, tempFiles, runs, segmentsRun,
                   failedRun, readyRun>>

\* generate_srt, lines 61-63: int((i + 1) / len(self.segments) * 100).
SrtProgress(store) == [i \in 1..Len(store) |-> Percent(i, Len(store))]

\* SubtitleGenerationThread.run: generate_srt writes the file, or open() or
\* write() raises.
Sub_Run(w) ==
    /\ workers[w].kind = "subtitle"
    /\ workers[w].pc = "write"
    /\ \E written \in BOOLEAN :
        LET values == IF written THEN SrtProgress(workers[w].segs) ELSE << >>
            last == IF written THEN <<"result">> ELSE <<"error">>
        IN  /\ workers' = [workers EXCEPT
                             ![w].pc = "done",
                             ![w].emitted = @ \o ProgressKinds(values) \o last]
            /\ events' = events \o ProgressEvents(w, values)
                                \o SignalEvents(w, last, << >>)
    /\ UNCHANGED <<tcall, call, video_path, segments, start_button, generate_button,
                   progress_bar, translation_combo, ollama_model_combo,
                   use_translation_checkbox, tempFiles, runs, segmentsRun,
                   failedRun, readyRun>>

\* ------------------------------------------------------------- slots
\* The signal at the head of the GUI thread's queue, and its sender.
Pending(sig, kinds) ==
    /\ events # << >>
    /\ Head(events).sig = sig
    /\ workers[Head(events).w].kind \in kinds

AllKinds == { "transcription", "translation", "subtitle" }

Sender == Head(events).w

\* update_progress, connected to every worker's progress_signal.
update_progress ==
    /\ Pending("progress", AllKinds)
    /\ progress_bar' = SetValue(progress_bar, Head(events).value)
    /\ events' = Tail(events)
    /\ UNCHANGED <<tcall, call, video_path, segments, start_button, generate_button,
                   translation_combo, ollama_model_combo,
                   use_translation_checkbox, workers, tempFiles, runs,
                   segmentsRun, failedRun, readyRun>>

\* handle_transcription_result, with start_translation when it calls it.
handle_transcription_result ==
    /\ Pending("result", {"transcription"})
    /\ segments' = ListStore(Head(events).segs)
    /\ segmentsRun' = workers[Sender].run
    /\ events' = Tail(events)
    /\ IF TranslationRequested
       THEN /\ progress_bar' = 0
            /\ workers' = [workers EXCEPT ![Sender] =
                   [NoWorker EXCEPT !.kind = "translation",
                                    !.run = workers[Sender].run,
                                    !.pc = "translate",
                                    !.segs = Head(events).segs,
                                    !.model_name = ollama_model_combo.text]]
            /\ UNCHANGED <<start_button, generate_button, readyRun>>
       ELSE /\ start_button' = TRUE
            /\ generate_button' = TRUE
            /\ readyRun' = workers[Sender].run
            /\ workers' = [workers EXCEPT ![Sender] = NoWorker]
            /\ UNCHANGED progress_bar
    /\ UNCHANGED <<tcall, call, video_path, translation_combo, ollama_model_combo,
                   use_translation_checkbox, tempFiles, runs, failedRun>>

\* handle_translation_result
handle_translation_result ==
    /\ Pending("result", {"translation"})
    /\ segments' = ListStore(Head(events).segs)
    /\ segmentsRun' = workers[Sender].run
    /\ use_translation_checkbox' = [enabled |-> TRUE, checked |-> TRUE]
    /\ start_button' = TRUE
    /\ generate_button' = TRUE
    /\ readyRun' = workers[Sender].run
    /\ workers' = [workers EXCEPT ![Sender] = NoWorker]
    /\ events' = Tail(events)
    /\ UNCHANGED <<tcall, call, video_path, progress_bar, translation_combo,
                   ollama_model_combo, tempFiles, runs, failedRun>>

\* handle_subtitle_result
handle_subtitle_result ==
    /\ Pending("result", {"subtitle"})
    /\ generate_button' = TRUE
    /\ workers' = [workers EXCEPT ![Sender] = NoWorker]
    /\ events' = Tail(events)
    /\ UNCHANGED <<tcall, call, video_path, segments, start_button, progress_bar,
                   translation_combo, ollama_model_combo,
                   use_translation_checkbox, tempFiles, runs, segmentsRun,
                   failedRun, readyRun>>

\* handle_error, connected to every worker's error_signal.
handle_error ==
    /\ Pending("error", AllKinds)
    /\ start_button' = TRUE
    /\ generate_button' = Truthy(segments)
    /\ progress_bar' = 0
    /\ failedRun' = IF workers[Sender].kind = "subtitle"
                    THEN failedRun ELSE workers[Sender].run
    /\ workers' = [workers EXCEPT ![Sender] = NoWorker]
    /\ events' = Tail(events)
    /\ UNCHANGED <<tcall, call, video_path, segments, translation_combo,
                   ollama_model_combo, use_translation_checkbox, tempFiles,
                   runs, segmentsRun, readyRun>>

Next ==
    \/ select_video
    \/ on_translation_model_changed
    \/ start_transcription
    \/ generate_subtitle
    \/ \E w \in WorkerIds : Tr_Extract(w)
    \/ \E w \in WorkerIds : Tr_Transcribe(w)
    \/ \E w \in WorkerIds : Tr_Cleanup(w)
    \/ \E w \in WorkerIds : Tl_Run(w)
    \/ \E w \in WorkerIds : Sub_Run(w)
    \/ update_progress
    \/ handle_transcription_result
    \/ handle_translation_result
    \/ handle_subtitle_result
    \/ handle_error

Spec == Init /\ [][Next]_vars

\* TranslationThread.run alone, over every bounded store and configuration.
SpecTranslate == TInit /\ [][TNext]_vars

\* One worker thread of any kind, constructed over bounded inputs and run
\* with nothing else going on: the run() methods by themselves.
WorkerInputs ==
    { [NoWorker EXCEPT !.kind = "transcription", !.run = 1, !.pc = "extract",
                       !.video_path = v, !.use_faster_whisper = fw]
        : v \in Videos, fw \in BOOLEAN } \cup
    { [NoWorker EXCEPT !.kind = "translation", !.run = 1, !.pc = "translate",
                       !.segs = st, !.model_name = m]
        : st \in InputStores, m \in ModelNames } \cup
    { [NoWorker EXCEPT !.kind = "subtitle", !.run = 1, !.pc = "write",
                       !.segs = st, !.use_translation = u]
        : st \in InputStores, u \in BOOLEAN }

WInit ==
    /\ tcall = IdleCall
    /\ call = NoCall
    /\ video_path = NoPath
    /\ segments = NoneStore
    /\ start_button = FALSE
    /\ generate_button = FALSE
    /\ progress_bar = 0
    /\ translation_combo = [enabled |-> FALSE, text |-> NoTranslation]
    /\ ollama_model_combo = [enabled |-> FALSE, text |-> ""]
    /\ use_translation_checkbox = [enabled |-> FALSE, checked |-> FALSE]
    /\ \E x \in WorkerInputs :
        workers = [w \in WorkerIds |-> IF w = 1 THEN x ELSE NoWorker]
    /\ events = << >>
    /\ tempFiles \in SUBSET { TempPath(v) : v \in Videos }
    /\ runs = 1
    /\ segmentsRun = 0
    /\ failedRun = 0
    /\ readyRun = 0

WNext ==
    \/ \E w \in WorkerIds : Tr_Extract(w)
    \/ \E w \in WorkerIds : Tr_Transcribe(w)
    \/ \E w \in WorkerIds : Tr_Cleanup(w)
    \/ \E w \in WorkerIds : Tl_Run(w)
    \/ \E w \in WorkerIds : Sub_Run(w)

SpecWorker == WInit /\ [][WNext]_vars

\* ------------------------------------------------------------- SubtitleGenerator
\* Times are counted in tenths of a millisecond.
TicksPerSecond == 10000

\* The largest hour count and sub-second tick count of the times formatted.
MaxHours == 25
MaxTicks == 20

DigitChars == <<"0", "1", "2", "3", "4", "5", "6", "7", "8", "9">>

\* str(n) for n >= 0.
RECURSIVE Decimal(_)
Decimal(n) ==
    IF n < 10 THEN <<DigitChars[n + 1]>>
    ELSE Decimal(n \div 10) \o <<DigitChars[(n % 10) + 1]>>

\* f"{n:0{width}d}": zero-padded on the left to at least width digits.
ZeroPad(n, width) ==
    LET d == Decimal(n)
    IN  IF Len(d) >= width THEN d
        ELSE [i \in 1..(width - Len(d)) |-> "0"] \o d

\* timedelta(seconds=...): normalised to days, seconds in 0..86399 and
\* microseconds in 0..999999.
Timedelta(ticks) ==
    [days |-> ticks \div (86400 * TicksPerSecond),
     seconds |-> (ticks \div TicksPerSecond) % 86400,
     microseconds |-> (ticks % TicksPerSecond) * 100]

\* A variant of _format_time that rounds the milliseconds to the nearest.
MutFormatTimeRounds(ticks) ==
    LET td == Timedelta(ticks)
        hours == td.seconds \div 3600
        minutes == (td.seconds % 3600) \div 60
        seconds == td.seconds % 60
        milliseconds == ((td.microseconds + 500) \div 1000) % 1000
    IN  ZeroPad(hours, 2) \o <<":">> \o ZeroPad(minutes, 2) \o <<":">>
            \o ZeroPad(seconds, 2) \o <<",">> \o ZeroPad(milliseconds, 3)

\* SubtitleGenerator._format_time: the fields come from td.seconds and
\* td.microseconds; td.days is not read.
FormatTime(ticks) ==
    LET td == Timedelta(ticks)
        hours == td.seconds \div 3600
        minutes == (td.seconds % 3600) \div 60
        seconds == td.seconds % 60
        milliseconds == td.microseconds \div 1000
    IN  ZeroPad(hours, 2) \o <<":">> \o ZeroPad(minutes, 2) \o <<":">>
            \o ZeroPad(seconds, 2) \o <<",">> \o ZeroPad(milliseconds, 3)

\* The times handed to _format_time: up to MaxHours hours, the first and
\* last minute and second, and the first MaxTicks and the last tick of a
\* second.
TimeInputs ==
    { ((h * 60 + m) * 60 + s) * TicksPerSecond + t :
        h \in 0..MaxHours, m \in {0, 59}, s \in {0, 59},
        t \in (0..MaxTicks) \cup {TicksPerSecond - 1} }

\* One call of _format_time, and one more a tenth of a millisecond later.
FInit ==
    /\ \E x \in TimeInputs :
        call = [fn |-> "_format_time", seconds |-> x, pc |-> "start",
                out |-> << >>, later |-> << >>]
    /\ tcall = IdleCall
    /\ UIInit

F_Format ==
    /\ call.fn = "_format_time"
    /\ call.pc = "start"
    /\ call' = [call EXCEPT !.out = FormatTime(call.seconds),
                            !.pc = "formatted"]
    /\ UNCHANGED <<tcall, uivars>>

F_FormatLater ==
    /\ call.fn = "_format_time"
    /\ call.pc = "formatted"
    /\ call' = [call EXCEPT !.later = FormatTime(call.seconds + 1),
                            !.pc = "both"]
    /\ UNCHANGED <<tcall, uivars>>

FNext == F_Format \/ F_FormatLater

SpecFormat == FInit /\ [][FNext]_vars

\* The fields a segment may carry besides start and end: text from
\* transcription, original and translated from translation.
SegmentShapes ==
    { sh \in SUBSET {"text", "original", "translated"} :
        "text" \in sh \/ "original" \in sh }

\* The segment at position i with the given fields; the three texts differ
\* so that the line written tells which field it came from.
SrtSeg(i, sh) ==
    [f \in sh \cup {"start", "end"} |->
        CASE f = "start" -> i - 1
          [] f = "end" -> i
          [] f = "text" -> <<Letter>>
          [] f = "original" -> <<Letter, Letter>>
          [] f = "translated" -> <<Letter, Punct>>]

SrtStores ==
    UNION { { [i \in 1..n |-> SrtSeg(i, shapes[i])] :
                shapes \in [1..n -> SegmentShapes] } : n \in 0..MaxSegs }

\* os.path.splitext(output_path)[0] + ".srt"
OutputPaths == { "a.srt", "a.txt" }
SrtPath(output_path) ==
    IF output_path \in OutputPaths THEN "a.srt" ELSE NoPath

\* A variant of the selection that prefers the original text.
MutSrtTextPrefersOriginal(segment, use_translation) ==
    IF "original" \in DOMAIN segment THEN segment.original
    ELSE IF use_translation /\ "translated" \in DOMAIN segment
         THEN segment.translated
         ELSE segment.text

\* generate_srt, lines 51-57: the text line of a block.
SrtText(segment, use_translation) ==
    IF use_translation /\ "translated" \in DOMAIN segment
    THEN segment.translated
    ELSE IF "original" \in DOMAIN segment
         THEN segment.original
         ELSE segment.text

\* A variant of the block that numbers from zero.
MutSrtBlockZeroBased(i, segment, use_translation) ==
    << Decimal(i - 1),
       FormatTime(segment.start * TicksPerSecond)
           \o <<" ", "-", "-", ">", " ">>
           \o FormatTime(segment.end * TicksPerSecond),
       SrtText(segment, use_translation),
       << >> >>

\* generate_srt, lines 44-59: the four lines written for segment i (1-based).
SrtBlock(i, segment, use_translation) ==
    << Decimal(i),
       FormatTime(segment.start * TicksPerSecond)
           \o <<" ", "-", "-", ">", " ">>
           \o FormatTime(segment.end * TicksPerSecond),
       SrtText(segment, use_translation),
       << >> >>

\* A SubtitleGenerator over any bounded store; no file written yet.
GInit ==
    /\ \E st \in SrtStores, u \in BOOLEAN, o \in OutputPaths :
        call = [fn |-> "generate_srt", segments |-> st, use_translation |-> u,
                output_path |-> o, pc |-> "open", i |-> 0,
                opened |-> FALSE, lines |-> << >>, progress |-> << >>,
                returned |-> NoPath]
    /\ tcall = IdleCall
    /\ UIInit

\* open(srt_path, "w"): the file is created empty, or open raises.
G_Open ==
    /\ call.fn = "generate_srt"
    /\ call.pc = "open"
    /\ \E ok \in BOOLEAN :
        call' = IF ok THEN [call EXCEPT !.opened = TRUE, !.pc = "loop"]
                ELSE [call EXCEPT !.pc = "raised"]
    /\ UNCHANGED <<tcall, uivars>>

\* One iteration of the loop: a block and a progress value.
G_WriteBlock ==
    /\ call.fn = "generate_srt"
    /\ call.pc = "loop"
    /\ call.i < Len(call.segments)
    /\ LET i == call.i + 1
       IN  call' = [call EXCEPT
                      !.i = i,
                      !.lines = @ \o SrtBlock(i, call.segments[i],
                                              call.use_translation),
                      !.progress = Append(@, Percent(i, Len(call.segments)))]
    /\ UNCHANGED <<tcall, uivars>>

\* The loop is exhausted: the file is closed and the path returned.
G_Return ==
    /\ call.fn = "generate_srt"
    /\ call.pc = "loop"
    /\ call.i = Len(call.segments)
    /\ call' = [call EXCEPT !.pc = "returned",
                            !.returned = SrtPath(call.output_path)]
    /\ UNCHANGED <<tcall, uivars>>

GNext == G_Open \/ G_WriteBlock \/ G_Return

SpecSrt == GInit /\ [][GNext]_vars


\* ------------------------------------------------------------- sanitisation
\* The longest engine response examined.
MaxResponseLen == 3

\* Engine responses: every string of up to MaxResponseLen characters.
Responses ==
    UNION { [1..n -> {Letter, Space, Punct, Other}] : n \in 0..MaxResponseLen }

\* The post-processing of translate_with_ollama applied to a response, and
\* applied once more to its own output.
SInit ==
    /\ \E r \in Responses :
        call = [fn |-> "sanitize", stdout |-> r, pc |-> "start",
                once |-> << >>, twice |-> << >>]
    /\ tcall = IdleCall
    /\ UIInit

S_Sanitize ==
    /\ call.fn = "sanitize"
    /\ call.pc = "start"
    /\ call' = [call EXCEPT !.once = Sanitize(call.stdout), !.pc = "once"]
    /\ UNCHANGED <<tcall, uivars>>

S_SanitizeAgain ==
    /\ call.fn = "sanitize"
    /\ call.pc = "once"
    /\ call' = [call EXCEPT !.twice = Sanitize(call.once), !.pc = "twice"]
    /\ UNCHANGED <<tcall, uivars>>

SNext == S_Sanitize \/ S_SanitizeAgain

SpecSanitize == SInit /\ [][SNext]_vars

\* ------------------------------------------------------------- AudioTranscriber
\* The most segments an engine reports, and the latest time in seconds.
MaxEngineSegs == 2
MaxSeconds == 3

ComputeTypes == { "float32", "float16", "int8" }

\* __init__, line 39.
ResolveDevice(cuda_available, use_gpu) ==
    IF cuda_available /\ use_gpu THEN "cuda" ELSE "cpu"

\* What the code hands to the engine: whisper.load_model("base", device) and
\* transcribe(fp16=use_fp16); WhisperModel(model_path, device, compute_type)
\* and transcribe(beam_size=5).
EngineParams(use_faster_whisper, device, compute_type) ==
    IF use_faster_whisper
    THEN [engine |-> "faster-whisper", device |-> device,
          compute_type |-> compute_type, beam_size |-> 5]
    ELSE [engine |-> "whisper", device |-> device,
          fp16 |-> (device = "cuda" /\ compute_type \in {"float16", "int8"})]

\* The segments an engine reports: each starts where the previous one
\* ended, end times do not decrease, the text has leading whitespace.
EngineSegments ==
    UNION { { [i \in 1..n |-> [start |-> IF i = 1 THEN 0 ELSE ends[i - 1],
                               end |-> ends[i],
                               text |-> <<Space, Letter>>]] :
                ends \in { e \in [1..n -> 1..MaxSeconds] :
                             \A i, j \in 1..n : i <= j => e[i] <= e[j] } } :
            n \in 0..MaxEngineSegs }

\* info.duration as the engine reports it, in seconds.
EngineDurations == 1..MaxSeconds

\* An AudioTranscriber about to be constructed for one transcribe call.
AInit ==
    /\ \E fw \in BOOLEAN, gpu \in BOOLEAN, cuda \in BOOLEAN,
          ct \in ComputeTypes :
        call = [fn |-> "transcribe", use_faster_whisper |-> fw,
                use_gpu |-> gpu, cuda_available |-> cuda,
                compute_type |-> ct, device |-> "unset", pc |-> "new",
                engine |-> [engine |-> "none"], reported |-> << >>,
                total_duration |-> 0, result |-> << >>, progress |-> << >>]
    /\ tcall = IdleCall
    /\ UIInit

\* AudioTranscriber.__init__
A_Construct ==
    /\ call.fn = "transcribe"
    /\ call.pc = "new"
    /\ call' = [call EXCEPT
                  !.device = ResolveDevice(call.cuda_available, call.use_gpu),
                  !.pc = "engine"]
    /\ UNCHANGED <<tcall, uivars>>

\* The model is loaded and the audio transcribed by the engine, which
\* returns its segments (and, for faster-whisper, the duration) or raises.
A_Engine ==
    /\ call.fn = "transcribe"
    /\ call.pc = "engine"
    /\ LET params == EngineParams(call.use_faster_whisper, call.device,
                                  call.compute_type)
       IN  \/ call' = [call EXCEPT !.engine = params, !.pc = "raised"]
           \/ \E segs \in EngineSegments :
              \E d \in IF call.use_faster_whisper THEN EngineDurations ELSE {0} :
                 call' = [call EXCEPT !.engine = params, !.reported = segs,
                                      !.total_duration = d, !.pc = "loop"]
    /\ UNCHANGED <<tcall, uivars>>

\* One iteration of the loop over the engine's segments: the segment is
\* appended with its text stripped and a progress value is reported.
A_Segment ==
    /\ call.fn = "transcribe"
    /\ call.pc = "loop"
    /\ Len(call.result) < Len(call.reported)
    /\ LET i == Len(call.result) + 1
           segment == call.reported[i]
           value == IF call.use_faster_whisper
                    THEN FasterWhisperProgress(call.reported,
                                               call.total_duration)[i]
                    ELSE WhisperProgress(call.reported)[i]
       IN  call' = [call EXCEPT
                      !.result = Append(@, [start |-> segment.start,
                                            end |-> segment.end,
                                            text |-> Strip(segment.text)]),
                      !.progress = Append(@, value)]
    /\ UNCHANGED <<tcall, uivars>>

A_Return ==
    /\ call.fn = "transcribe"
    /\ call.pc = "loop"
    /\ Len(call.result) = Len(call.reported)
    /\ call' = [call EXCEPT !.pc = "returned"]
    /\ UNCHANGED <<tcall, uivars>>

ANext == A_Construct \/ A_Engine \/ A_Segment \/ A_Return

SpecTranscribe == AInit /\ [][ANext]_vars


\* ------------------------------------------------------------- claims
NoWorkerActive == \A w \in WorkerIds : Free(w)

\* A worker of the given kinds is constructed and started in this step.
Started(w, kinds) ==
    /\ workers'[w].kind \in kinds
    /\ workers[w].kind # workers'[w].kind

\* C1: start_transcription never starts a new run while a worker of an
\* earlier run has not yet delivered its result or error signal.
C1_NoNewRunWhileWorkerActive ==
    [][runs' # runs => NoWorkerActive]_vars

\* C2: a TranslationThread starts only in the handling of the transcription
\* result of its own run, and a SubtitleGenerationThread starts only when no
\* transcription or translation worker is running and the run whose segments
\* it writes has delivered the result of its last stage.
C2_StagesNeverOverlap ==
    [][\A w \in WorkerIds :
         /\ Started(w, {"translation"}) =>
              /\ Pending("result", {"transcription"})
              /\ workers[Sender].run = workers'[w].run
         /\ Started(w, {"subtitle"}) =>
              /\ \A x \in WorkerIds :
                   workers[x].kind \notin {"transcription", "translation"}
              /\ segmentsRun # 0
              /\ readyRun = segmentsRun]_vars

\* C4: once an error of a run has been handled, no translation or subtitle
\* worker of that run starts, and no subtitle worker starts at all before a
\* later run has delivered its result.
C4_FailedIsTerminal ==
    [][\A w \in WorkerIds :
         Started(w, {"translation", "subtitle"}) =>
             /\ workers'[w].run # failedRun
             /\ workers'[w].kind = "subtitle" =>
                    (failedRun = 0 \/ readyRun > failedRun)]_vars

Terminals(e) == { k \in 1..Len(e) : e[k] \in {"result", "error"} }

\* C3: every run() emits exactly one terminal signal (result or error, never
\* both, never none once it has returned) and nothing after it.
C3_ExactlyOneTerminalSignal ==
    \A w \in WorkerIds :
        LET e == workers[w].emitted
        IN  /\ Cardinality(Terminals(e)) <= 1
            /\ Terminals(e) # {} => Len(e) \in Terminals(e)
            /\ ~Free(w) => ((workers[w].pc = "done") <=> (Terminals(e) # {}))

\* A transcription worker that reported progress, then failed to delete the
\* temporary file, and has returned.
C3_Witness ==
    \E w \in WorkerIds :
        /\ workers[w].kind = "transcription"
        /\ workers[w].pc = "done"
        /\ workers[w].cleanup \in {"PermissionError", "OSError"}
        /\ Len(workers[w].emitted) >= 2

\* C9: when a transcription worker that obtained a temporary audio path has
\* emitted its terminal signal, cleanup_temp_file has been called on the path
\* and the file is gone.
C9_TempFileRemovedAtTerminal ==
    \A w \in WorkerIds :
        (/\ workers[w].kind = "transcription"
         /\ workers[w].pc = "done"
         /\ workers[w].audio_path # NoPath)
        => /\ workers[w].cleanup \in {"removed", "absent"}
           /\ workers[w].audio_path \notin tempFiles

\* C10: when transcription succeeded and cleanup_temp_file raised, the worker
\* emits result_signal and no error_signal.
C10_CleanupFailureNotEscalated ==
    \A w \in WorkerIds :
        (/\ workers[w].kind = "transcription"
         /\ workers[w].pc = "done"
         /\ workers[w].transcribed
         /\ workers[w].cleanup \in {"PermissionError", "OSError"})
        => LET e == workers[w].emitted
           IN  /\ e # << >>
               /\ e[Len(e)] = "result"
               /\ \A k \in 1..Len(e) : e[k] # "error"

\* The caller's configuration: an engine to use, and its name.
Configured == tcall.use_local_model /\ tcall.model_name # ""

\* The engine's answer is a non-zero exit or blank output.
BadReply(reply) == ~reply.ok \/ IsBlank(reply.stdout)

BadReplies == { k \in 1..Len(tcall.replies) : BadReply(tcall.replies[k]) }

\* C5: translate_segments returns an entry for every input segment or
\* raises; once the engine's answer for a segment is a failure or blank, the
\* call raises without a further engine invocation, and only a complete
\* store is ever emitted through result_signal.
C5_AllOrNothing ==
    /\ BadReplies # {} =>
          /\ tcall.pc \in {"raised", "done"}
          /\ tcall.signal # "result"
          /\ \A k \in BadReplies : k = Len(tcall.invocations)
    /\ tcall.pc = "returned" =>
          Len(tcall.translated_segments) = Len(tcall.segments)
    /\ tcall.signal = "result" =>
          /\ tcall.delivered = tcall.translated_segments
          /\ Len(tcall.delivered) = Len(tcall.segments)
    /\ tcall.signal = "error" => tcall.delivered = << >>

\* The engine failed on the first of two segments and the error was emitted.
C5_Witness ==
    /\ tcall.signal = "error"
    /\ Len(tcall.segments) = 2
    /\ Len(tcall.invocations) = 1
    /\ BadReplies = {1}

HasBlankSegment ==
    \E j \in 1..Len(tcall.segments) : IsBlank(tcall.segments[j].text)

\* C6: with an engine configured, a store holding a blank segment anywhere
\* fails as a whole and the engine is never invoked.
C6_BlankSegmentMeansNoInvocation ==
    (Configured /\ HasBlankSegment) =>
        /\ tcall.invocations = << >>
        /\ tcall.pc # "returned"
        /\ tcall.signal # "result"

\* C7: with translation disabled or no model name, a non-empty store never
\* raises, the engine is never invoked, and every entry produced has
\* translated and original equal to the text of the input segment at its
\* index; the returned store has an entry for every segment.
C7_DisabledPathCopiesText ==
    (~Configured /\ tcall.segments # << >>) =>
        /\ tcall.pc # "raised"
        /\ tcall.signal # "error"
        /\ tcall.invocations = << >>
        /\ \A j \in 1..Len(tcall.translated_segments) :
              /\ tcall.translated_segments[j].translated = tcall.segments[j].text
              /\ tcall.translated_segments[j].original = tcall.segments[j].text
        /\ tcall.pc \in {"returned", "done"} =>
              Len(tcall.translated_segments) = Len(tcall.segments)

\* Two segments went through with local translation on and no model name.
C7_Witness ==
    /\ tcall.use_local_model
    /\ tcall.model_name = ""
    /\ Len(tcall.segments) = 2
    /\ tcall.signal = "result"

\* C8 as stated: with translation disabled or no model name, the call never
\* raises, the zero-segment store included.
C8_DisabledPathNeverRaises ==
    ~Configured => (tcall.pc # "raised" /\ tcall.signal # "error")

\* C8 amended: with translation disabled or no model name, the call raises
\* exactly when the store has no segment.
C8_DisabledPathRaisesOnlyOnEmptyStore ==
    ~Configured =>
        /\ (tcall.pc = "raised" \/ tcall.signal = "error")
              => tcall.segments = << >>
        /\ (tcall.segments = << >> /\ tcall.pc # "entry")
              => (tcall.pc = "raised" \/ tcall.signal = "error")

\* The empty store was refused with translation disabled.
C8_Witness ==
    /\ ~tcall.use_local_model
    /\ tcall.segments = << >>
    /\ tcall.signal = "error"

\* A slot runs in this step for a signal sent by a worker of an earlier run.
StaleDelivery ==
    /\ events # << >>
    /\ events' = Tail(events)
    /\ workers[Head(events).w].run < runs

\* C11: once a newer run has been started, a progress, result or error
\* signal delivered from a worker of an earlier run changes neither the
\* stored segments, nor the progress value, nor the enabled state of the
\* start and generate buttons.
C11_StaleCallbacksIgnored ==
    [][StaleDelivery =>
          /\ segments' = segments
          /\ progress_bar' = progress_bar
          /\ start_button' = start_button
          /\ generate_button' = generate_button]_vars

\* A transcription worker that holds a temporary audio path: extraction has
\* run and its cleanup has not finished.
HoldsTempPath(w) ==
    /\ workers[w].kind = "transcription"
    /\ workers[w].pc \in {"transcribe", "cleanup"}

\* C12: two transcription runs active at the same time never use the same
\* temporary audio path, also when both are for the same video.
C12_ConcurrentRunsUseDistinctTempPaths ==
    \A w1, w2 \in WorkerIds :
        (w1 # w2 /\ HoldsTempPath(w1) /\ HoldsTempPath(w2))
            => workers[w1].audio_path # workers[w2].audio_path

\* The values a worker passed to its progress callback, in emission order
\* (no slot runs in SpecWorker, so the queue holds all of them).
ProgressEventsOf(w) ==
    SelectSeq(events, LAMBDA e : e.w = w /\ e.sig = "progress")

\* The stage a worker ran returned normally.
StageSucceeded(w) ==
    \/ workers[w].kind = "transcription" /\ workers[w].transcribed
    \/ /\ workers[w].kind \in {"translation", "subtitle"}
       /\ \E k \in DOMAIN workers[w].emitted : workers[w].emitted[k] = "result"

\* C13: for every stage and every successful invocation that is given a
\* progress callback, the values passed to the callback never decrease and
\* the last one is exactly 100.
C13_ProgressMonotoneEndingAt100 ==
    \A w \in WorkerIds :
        LET p == ProgressEventsOf(w)
        IN  (StageSucceeded(w) /\ p # << >>)
                => /\ \A i, j \in DOMAIN p : i <= j => p[i].value <= p[j].value
                   /\ p[Len(p)].value = 100


\* The text line of the j-th block written by generate_srt.
TextLine(j) == call.lines[4 * (j - 1) + 3]

\* C14: for each segment generate_srt writes the translated value if
\* use_translation is true and the segment has a translated field, otherwise
\* the original value if the segment has an original field, otherwise the
\* text value; exactly one of the three is written per segment.
C14_TextLineSelection ==
    /\ Len(call.lines) = 4 * call.i
    /\ \A j \in 1..call.i :
        LET segment == call.segments[j]
        IN  /\ (call.use_translation /\ "translated" \in DOMAIN segment)
                  => TextLine(j) = segment.translated
            /\ (~(call.use_translation /\ "translated" \in DOMAIN segment)
                  /\ "original" \in DOMAIN segment)
                  => TextLine(j) = segment.original
            /\ (~(call.use_translation /\ "translated" \in DOMAIN segment)
                  /\ "original" \notin DOMAIN segment)
                  => TextLine(j) = segment.text

\* Translated output was requested and the block of a segment carrying
\* text, original and translated has been written.
C14_Witness ==
    /\ call.use_translation
    /\ call.i >= 1
    /\ DOMAIN call.segments[1]
          = {"start", "end", "text", "original", "translated"}
    /\ TextLine(1) = <<Letter, Punct>>

\* The time line generate_srt writes for a segment.
TimeLine(segment) ==
    FormatTime(segment.start * TicksPerSecond)
        \o <<" ", "-", "-", ">", " ">>
        \o FormatTime(segment.end * TicksPerSecond)

\* C15: for a store of N >= 0 segments generate_srt writes exactly N blocks
\* in store order, block i being the line i, the line "<start> --> <end>",
\* one text line and one blank line; for N = 0 it completes without error,
\* leaves an empty file and returns its path.
C15_OneBlockPerSegmentInOrder ==
    /\ Len(call.lines) = 4 * call.i
    /\ \A j \in 1..call.i :
        /\ call.lines[4 * (j - 1) + 1] = Decimal(j)
        /\ call.lines[4 * (j - 1) + 2] = TimeLine(call.segments[j])
        /\ \E f \in {"text", "original", "translated"} :
              /\ f \in DOMAIN call.segments[j]
              /\ TextLine(j) = call.segments[j][f]
        /\ call.lines[4 * (j - 1) + 4] = << >>
    /\ call.pc = "returned"
          => /\ call.i = Len(call.segments)
             /\ call.returned = "a.srt"
    /\ call.pc = "raised" => ~call.opened
    /\ (call.opened /\ call.segments = << >>)
          => /\ call.lines = << >>
             /\ call.progress = << >>

\* generate_srt has returned after writing a store of two or more segments.
C15_Witness ==
    /\ call.pc = "returned"
    /\ Len(call.segments) >= 2
    /\ Len(call.lines) = 4 * Len(call.segments)

\* C16: _format_time does not cap hours at 24: for every whole number of
\* seconds s >= 0, also s >= 86400, the hours field is floor(s / 3600) and
\* minutes and seconds are the remainders.
C16_HoursNotCapped ==
    (call.pc \in {"formatted", "both"} /\ call.seconds % TicksPerSecond = 0)
        => LET s == call.seconds \div TicksPerSecond
           IN  call.out = ZeroPad(s \div 3600, 2) \o <<":">>
                              \o ZeroPad((s % 3600) \div 60, 2) \o <<":">>
                              \o ZeroPad(s % 60, 2) \o <<",", "0", "0", "0">>

\* C17: for every time x >= 0 in tenths of a millisecond, _format_time(x)
\* and _format_time(x + 0.0001 s) are the same string.
C17_AdjacentTicksFormatAlike ==
    call.pc = "both" => call.out = call.later

\* C17, amended: _format_time(x) and _format_time(x + 0.0001 s) are the
\* same string exactly when x is not in the last tenth of its millisecond;
\* in the last tenth the later time is in the next millisecond and the
\* strings differ.
C17_AdjacentTicksAlikeWithinMillisecond ==
    call.pc = "both" => ((call.out = call.later) <=> (call.seconds % 10 # 9))

\* Both times were formatted, the earlier one 0.8 ms into its millisecond
\* and later than the first second.
C17_Witness ==
    /\ call.pc = "both"
    /\ call.seconds >= TicksPerSecond
    /\ call.seconds % 10 = 8
    /\ call.out = call.later

\* C18: the post-processing S of an engine response in translate_with_ollama
\* is idempotent: S(S(r)) = S(r) for every response r.
C18_SanitizeIdempotent ==
    call.pc = "twice" => call.twice = call.once

\* C19: for both backends, when the resolved device is CPU the configured
\* compute_type has no effect on the parameters passed to the engine: every
\* compute_type yields the same engine parameters.
C19_ComputeTypeIgnoredOnCpu ==
    (call.pc \in {"loop", "returned", "raised"} /\ call.device = "cpu")
        => \A ct \in ComputeTypes :
              EngineParams(call.use_faster_whisper, "cpu", ct) = call.engine

\* C20: every progress value of either transcription backend lies in
\* 0..100, and 100 is reported only with the last segment appended, also
\* when a segment ends after the reported duration.
C20_TranscriptionProgressClamped ==
    \A k \in DOMAIN call.progress :
        /\ call.progress[k] \in 0..100
        /\ call.progress[k] = 100 => k = Len(call.reported)

\* C21: with an engine configured, translate_segments issues its requests in
\* segment order, one at a time: the k-th invocation carries the text of
\* segment k and the one context built from all segment texts, and on
\* success there are as many invocations as segments and the output has the
\* length, order and (start, end) pairs of the input.
C21_RequestsInSegmentOrder ==
    Configured =>
        /\ Len(tcall.replies) = Len(tcall.invocations)
        /\ Len(tcall.contexts) = Len(tcall.invocations)
        /\ Len(tcall.invocations) <= Len(tcall.segments)
        /\ \A k \in DOMAIN tcall.invocations :
              /\ tcall.invocations[k] = tcall.segments[k].text
              /\ tcall.contexts[k] = ContextPrompt(tcall.segments)
        /\ tcall.pc = "returned" =>
              /\ Len(tcall.invocations) = Len(tcall.segments)
              /\ Len(tcall.translated_segments) = Len(tcall.segments)
              /\ \A k \in DOMAIN tcall.segments :
                    /\ tcall.translated_segments[k].start
                          = tcall.segments[k].start
                    /\ tcall.translated_segments[k].end = tcall.segments[k].end
                    /\ tcall.translated_segments[k].original
                          = tcall.segments[k].text

\* A configured call has returned for a store of two segments with
\* different texts, the engine invoked once for each.
C21_Witness ==
    /\ Configured
    /\ tcall.pc = "returned"
    /\ Len(tcall.segments) = 2
    /\ tcall.segments[1].text # tcall.segments[2].text
    /\ Len(tcall.invocations) = 2

\* handle_transcription_result runs in this step for the signal at the head
\* of the queue.
TranscriptionResultHandled ==
    /\ Pending("result", {"transcription"})
    /\ events' = Tail(events)

\* C22: the configuration of a run is fixed when it is started: whether a
\* translation stage follows the transcription, and with which Ollama model,
\* is decided by the settings at the moment of start_transcription, whatever
\* is selected while the transcription worker runs.
C22_RunConfigurationFixedAtStart ==
    [][TranscriptionResultHandled =>
          LET before == workers[Sender]
              after == workers'[Sender]
          IN  /\ (after.kind = "translation") = before.translation_at_start
              /\ after.kind = "translation"
                    => after.model_name = before.model_at_start]_vars

\* C23: whenever translate_with_ollama returns normally the translation is
\* a non-empty string: a response with nothing usable after sanitisation is
\* reported as a failure and never stored as an empty translated field.
C23_TranslationNeverEmpty ==
    Configured =>
        \A k \in DOMAIN tcall.translated_segments :
            tcall.translated_segments[k].translated # EmptyText

\* C24: the segments handed to subtitle generation come from the most
\* recently started run: once start_transcription has started a new run,
\* generate_subtitle never writes the segments of an earlier one, also not
\* after the new run failed and handle_error re-enabled the generate button.
C24_SubtitleFromLatestRun ==
    [][(\E w \in WorkerIds : Started(w, {"subtitle"}))
          => segmentsRun = runs]_vars
====
